---- MODULE Spec2Model ----
(***************************************************************************)
(* A model of gen_pass.py (mbos/Scripts): the word source backed by an     *)
(* SQLite cache, the password synthesizer genereer_wachtwoord, the bounded *)
(* retry loop genereer_meerdere_wachtwoorden and the command line front    *)
(* end.  Strings are sequences of one-character tokens.                    *)
(***************************************************************************)
EXTENDS Integers, Sequences, FiniteSets, TLC

VARIABLES
    pc,            \* where the program is
    args,          \* the parsed command line (argparse namespace)
    db,            \* the SQLite file at db_naam
    remote,        \* what requests.get(url) answers
    conn,          \* download_woordenlijst: its sqlite3 connection
    woordenlijst,  \* __main__: the list download_woordenlijst returned
    par,           \* the arguments of the running genereer_meerdere_wachtwoorden call
    wachtwoorden,  \* genereer_meerdere_wachtwoorden: the list being built
    i,             \* genereer_meerdere_wachtwoorden: the slot of the for loop
    pogingen,      \* genereer_meerdere_wachtwoorden: the retry counter of the slot
    wachtwoord,    \* genereer_meerdere_wachtwoorden: the last candidate (or None)
    aanroepen,     \* history: calls of genereer_wachtwoord made in the current slot
    slots,         \* history: how each finished slot ended
    log            \* history: what the program did to the outside world

vars == <<pc, args, db, remote, conn, woordenlijst, par, wachtwoorden, i, pogingen,
          wachtwoord, aanroepen, slots, log>>

\* the locals of genereer_meerdere_wachtwoorden, and the word source's world
lusVars == <<wachtwoorden, i, pogingen, wachtwoord, aanroepen, slots>>
bronVars == <<db, remote, conn>>

----------------------------------------------------------------------------
(* Bounds of the model *)

\* the largest number of passwords asked for (-n / aantal)
MaxAantal == 2
\* the largest retry bound (--max-pogingen / max_pogingen)
MaxPogingen == 2

----------------------------------------------------------------------------
(* Characters and strings *)

Min(a, b) == IF a < b THEN a ELSE b
Max(a, b) == IF a > b THEN a ELSE b

\* One-character tokens.  "alef" stands for a letter without case (str.isalpha()
\* holds, str.upper() leaves it alone), " " for whitespace, "'" for the apostrophe.
Kleine == {"a", "b"}
Hoofd == {"A", "B"}
Ongecased == {"alef"}
\* a lower case letter that has no upper case form, such as U+0138
KleinZonderHoofd == {"kra"}
Decimaal == {"0", "1", "2", "3", "4", "5", "6", "7", "8", "9"}

isupper(c) == c \in Hoofd
isdigit(c) == c \in Decimaal
islower(c) == c \in Kleine \cup KleinZonderHoofd
isalpha_teken(c) == c \in Kleine \cup Hoofd \cup Ongecased \cup KleinZonderHoofd

upper(c) == CASE c = "a" -> "A" [] c = "b" -> "B" [] OTHER -> c
lower(c) == CASE c = "A" -> "a" [] c = "B" -> "b" [] OTHER -> c

\* a capitalize() that leaves the word as it is
capitalize_zonder_hoofdletter(w) == w

\* str.capitalize(): first character upper-cased, every other one lower-cased
capitalize(w) ==
    [n \in 1..Len(w) |-> IF n = 1 THEN upper(w[n]) ELSE lower(w[n])]

\* w[:n] and w[n:] for n >= 0
slice_tot(w, n) == SubSeq(w, 1, Min(n, Len(w)))
slice_vanaf(w, n) == SubSeq(w, Min(n, Len(w)) + 1, Len(w))

RECURSIVE join_zonder_koppelteken(_, _)
\* a join that leaves the separator out
join_zonder_koppelteken(sep, ws) ==
    IF Len(ws) = 0 THEN <<>>
    ELSE ws[1] \o join_zonder_koppelteken(sep, Tail(ws))

RECURSIVE join(_, _)
\* sep.join(ws) for a one-character separator
join(sep, ws) ==
    IF Len(ws) = 0 THEN <<>>
    ELSE IF Len(ws) = 1 THEN ws[1]
    ELSE ws[1] \o <<sep>> \o join(sep, Tail(ws))

Tekens(s) == {s[n] : n \in 1..Len(s)}

\* str(n) for a decimal digit n
str_cijfer(n) == <<"0", "1", "2", "3", "4", "5", "6", "7", "8", "9">>[n + 1]

----------------------------------------------------------------------------
(* The validity predicate *)

\* a predicate that does not look at the length
is_veilig_zonder_lengte(w, min_wachtwoord_lengte, speciale_tekens) ==
    /\ \E c \in Tekens(w) : isupper(c)
    /\ \E c \in Tekens(w) : isdigit(c)
    /\ \E c \in Tekens(w) : c \in Tekens(speciale_tekens)

\* lines 279-289
is_veilig_wachtwoord(w, min_wachtwoord_lengte, speciale_tekens) ==
    IF Len(w) < min_wachtwoord_lengte THEN FALSE
    ELSE IF ~ \E c \in Tekens(w) : isupper(c) THEN FALSE
    ELSE IF ~ \E c \in Tekens(w) : isdigit(c) THEN FALSE
    ELSE IF ~ \E c \in Tekens(w) : c \in Tekens(speciale_tekens) THEN FALSE
    ELSE TRUE

----------------------------------------------------------------------------
(* genereer_wachtwoord: every result the random draws can produce *)

POSITIE_OPTIES == <<"begin", "midden", "eind", "tussen_woorden">>

\* The digits the model lets random.randint(0, 9) draw: both ends of the range.
GetrokkenCijfers == {0, 9}

\* random.randint(a, b): the values it can return; none when a > b (ValueError)
randint(a, b) == a..b

\* a sample that may draw the same position twice
sample_met_teruglegging(n, k) == [1..k -> 1..n]

\* random.sample(population, k) as positions: k distinct positions, in any order
sample(n, k) ==
    {s \in [1..k -> 1..n] : \A x, y \in 1..k : x # y => s[x] # s[y]}

\* lines 318-323: the special character drawn, "!" when the set is empty
speciaal_teken_keuzes(speciale_tekens) ==
    IF Len(speciale_tekens) = 0 THEN {"!"} ELSE Tekens(speciale_tekens)

\* a sub-choice that never finds a hyphen to replace
positie_keuzes_zonder_koppelteken(gekozen_positie, gekozen_woorden) ==
    CASE gekozen_positie = "midden" -> randint(1, Len(gekozen_woorden))
      [] OTHER -> {0}

\* lines 339-360: the sub-choice the strategy draws: the word split by "midden",
\* the hyphen replaced by "tussen_woorden" (0: nothing to draw)
positie_keuzes(gekozen_positie, gekozen_woorden) ==
    LET basis == join("-", gekozen_woorden)
        koppelteken_posities == {n \in 1..Len(basis) : basis[n] = "-"}
    IN  CASE gekozen_positie = "midden" -> randint(1, Len(gekozen_woorden))
          [] gekozen_positie = "tussen_woorden" ->
                IF koppelteken_posities # {} /\ Len(gekozen_woorden) > 1
                THEN koppelteken_posities ELSE {0}
          [] OTHER -> {0}

\* a strategy that splits the word at len // 2, also when that is 0
plaats_tekens_zonder_max(gekozen_woorden, cijfer, speciaal_teken, gekozen_positie, keuze) ==
    LET wachtwoord_basis == join("-", gekozen_woorden)
    IN  CASE gekozen_positie = "begin" ->
                <<cijfer, speciaal_teken>> \o wachtwoord_basis
          [] gekozen_positie = "eind" ->
                wachtwoord_basis \o <<cijfer, speciaal_teken>>
          [] gekozen_positie = "midden" ->
                LET woord == gekozen_woorden[keuze]
                    midden_index == Len(woord) \div 2
                IN  join("-", [gekozen_woorden EXCEPT ![keuze] =
                        slice_tot(woord, midden_index) \o <<cijfer, speciaal_teken>>
                            \o slice_vanaf(woord, midden_index)])
          [] OTHER ->
                IF keuze # 0
                THEN SubSeq(wachtwoord_basis, 1, keuze - 1)
                        \o <<cijfer, speciaal_teken>>
                        \o SubSeq(wachtwoord_basis, keuze + 1, Len(wachtwoord_basis))
                ELSE wachtwoord_basis \o <<cijfer, speciaal_teken>>

\* lines 339-360: the candidate before padding
plaats_tekens(gekozen_woorden, cijfer, speciaal_teken, gekozen_positie, keuze) ==
    LET wachtwoord_basis == join("-", gekozen_woorden)
    IN  CASE gekozen_positie = "begin" ->
                <<cijfer, speciaal_teken>> \o wachtwoord_basis
          [] gekozen_positie = "eind" ->
                wachtwoord_basis \o <<cijfer, speciaal_teken>>
          [] gekozen_positie = "midden" ->
                LET woord == gekozen_woorden[keuze]
                    midden_index == Max(1, Len(woord) \div 2)
                IN  join("-", [gekozen_woorden EXCEPT ![keuze] =
                        slice_tot(woord, midden_index) \o <<cijfer, speciaal_teken>>
                            \o slice_vanaf(woord, midden_index)])
          [] OTHER ->
                IF keuze # 0
                THEN SubSeq(wachtwoord_basis, 1, keuze - 1)
                        \o <<cijfer, speciaal_teken>>
                        \o SubSeq(wachtwoord_basis, keuze + 1, Len(wachtwoord_basis))
                ELSE wachtwoord_basis \o <<cijfer, speciaal_teken>>

\* a padding that always appends at least one digit
extra_cijfers_steeds(kandidaat, min_wachtwoord_lengte) ==
    [1..Max(1, min_wachtwoord_lengte - Len(kandidaat))
        -> {str_cijfer(n) : n \in GetrokkenCijfers}]

\* a padding that stops one digit short
extra_cijfers_te_kort(kandidaat, min_wachtwoord_lengte) ==
    IF Len(kandidaat) < min_wachtwoord_lengte
    THEN [1..(min_wachtwoord_lengte - Len(kandidaat) - 1)
            -> {str_cijfer(n) : n \in GetrokkenCijfers}]
    ELSE {<<>>}

\* lines 362-368: the digit strings the padding can append (the empty one when the
\* candidate is long enough)
extra_cijfers_keuzes(kandidaat, min_wachtwoord_lengte) ==
    IF Len(kandidaat) < min_wachtwoord_lengte
    THEN LET aantal_extra_cijfers == min_wachtwoord_lengte - Len(kandidaat)
         IN  [1..aantal_extra_cijfers -> {str_cijfer(n) : n \in GetrokkenCijfers}]
    ELSE {<<>>}

GeenUitkomst(soort) ==
    [soort |-> soort, wachtwoord |-> <<>>, steekproef |-> <<>>, woord_index |-> 0,
     gekozen_woorden |-> <<>>, cijfer |-> "", speciaal_teken |-> "",
     gekozen_positie |-> "", keuze |-> 0, kandidaat |-> <<>>,
     extra_cijfers |-> <<>>]

\* lines 300-376 for one word count k >= 1
genereer_met(wl, k, min_wachtwoord_lengte, speciale_tekens) ==
    UNION {
      LET gekozen_woorden ==
            [n \in 1..k |-> IF n = woord_index
                            THEN capitalize(wl[s[n]])
                            ELSE wl[s[n]]]
      IN UNION {
           LET kandidaat == plaats_tekens(gekozen_woorden, str_cijfer(c), st,
                                          POSITIE_OPTIES[p], keuze)
           IN  {[soort |-> "ok", wachtwoord |-> kandidaat \o extra,
                 steekproef |-> s, woord_index |-> woord_index,
                 gekozen_woorden |-> gekozen_woorden,
                 cijfer |-> str_cijfer(c), speciaal_teken |-> st,
                 gekozen_positie |-> POSITIE_OPTIES[p], keuze |-> keuze,
                 kandidaat |-> kandidaat, extra_cijfers |-> extra]
                : extra \in extra_cijfers_keuzes(kandidaat, min_wachtwoord_lengte)}
           : keuze \in positie_keuzes(POSITIE_OPTIES[p], gekozen_woorden)}
      : s \in sample(Len(wl), k), woord_index \in randint(1, k),
        c \in GetrokkenCijfers, st \in speciaal_teken_keuzes(speciale_tekens),
        p \in 1..Len(POSITIE_OPTIES) }

\* a word count drawn without looking at the size of the vocabulary
aantal_woorden_zonder_grens(wl, min_aantal_woorden, max_aantal_woorden) ==
    randint(min_aantal_woorden, max_aantal_woorden)

\* lines 300-301: the word counts randint can draw, the maximum clamped to the
\* size of the vocabulary
aantal_woorden_keuzes(wl, min_aantal_woorden, max_aantal_woorden) ==
    randint(min_aantal_woorden, Min(max_aantal_woorden, Len(wl)))

\* The outcomes of one call: None (too few words), a ValueError of the random
\* module (randint on an empty range, sample with a negative size or a size
\* larger than the population), or a string.
genereer_wachtwoord(wl, min_aantal_woorden, max_aantal_woorden, min_wachtwoord_lengte, speciale_tekens) ==
    IF Len(wl) < min_aantal_woorden
    THEN {GeenUitkomst("None")}
    ELSE LET aantallen == aantal_woorden_keuzes(wl, min_aantal_woorden,
                                                max_aantal_woorden)
         IN  IF aantallen = {}
             THEN {GeenUitkomst("ValueError")}
             ELSE UNION {
                    IF aantal_woorden <= 0 \/ aantal_woorden > Len(wl)
                    THEN {GeenUitkomst("ValueError")}
                    ELSE genereer_met(wl, aantal_woorden,
                                      min_wachtwoord_lengte, speciale_tekens)
                    : aantal_woorden \in aantallen }

----------------------------------------------------------------------------
(* The word cache: the SQLite file, a connection to it, and the remote list *)

\* The file at db_naam.  staat: "ok" (PRAGMA integrity_check answers ok),
\* "integriteit" (the check reports damage, the tables can still be read) or
\* "geen_db" (not an SQLite file: every statement raises sqlite3.DatabaseError).
\* rijen: the committed rows of table woorden, in rowid order.
Afwezig == [exists |-> FALSE, staat |-> "ok", tabel |-> FALSE, rijen |-> <<>>]

\* No connection (None, or closed)
GeenConn == [open |-> FALSE, tabel |-> FALSE, zicht |-> <<>>, in_transactie |-> FALSE]

\* sqlite3.connect(db_naam): the connection sees the committed rows
connect(d) ==
    [open |-> TRUE, tabel |-> d.tabel, zicht |-> d.rijen, in_transactie |-> FALSE]

RECURSIVE lstrip(_)
lstrip(regel) ==
    IF Len(regel) > 0 /\ regel[1] = " " THEN lstrip(Tail(regel)) ELSE regel

RECURSIVE rstrip(_)
rstrip(regel) ==
    IF Len(regel) > 0 /\ regel[Len(regel)] = " "
    THEN rstrip(SubSeq(regel, 1, Len(regel) - 1)) ELSE regel

\* str.strip()
strip(regel) == rstrip(lstrip(regel))

\* str.isalpha(): not empty and every character a letter
isalpha(woord) == Len(woord) > 0 /\ \A c \in Tekens(woord) : isalpha_teken(c)

\* every stripped line is kept, whatever its characters
woorden_data_zonder_filter(alle_woorden) ==
    [n \in 1..Len(alle_woorden) |->
        [woord |-> strip(alle_woorden[n]), lengte |-> Len(strip(alle_woorden[n]))]]

RECURSIVE woorden_data(_)
\* lines 168-173: the (woord, len(woord)) pairs of the lines that survive the filter
woorden_data(alle_woorden) ==
    IF Len(alle_woorden) = 0 THEN <<>>
    ELSE LET woord == strip(Head(alle_woorden))
         IN  (IF isalpha(woord) /\ "'" \notin Tekens(woord)
              THEN <<[woord |-> woord, lengte |-> Len(woord)]>> ELSE <<>>)
                 \o woorden_data(Tail(alle_woorden))

RECURSIVE executemany(_, _)
\* line 180: INSERT row by row; column woord is UNIQUE, so the first row whose word
\* is already in the table raises sqlite3.IntegrityError and ends the batch, the
\* rows before it staying inserted in the open transaction
executemany(rijen, data) ==
    IF Len(data) = 0 THEN [rijen |-> rijen, fout |-> FALSE]
    ELSE IF \E n \in 1..Len(rijen) : rijen[n].woord = Head(data).woord
         THEN [rijen |-> rijen, fout |-> TRUE]
         ELSE executemany(Append(rijen, Head(data)), Tail(data))

\* lines 57-79: connect, CREATE TABLE IF NOT EXISTS, commit; None on sqlite3.Error
init_database(d) ==
    IF d.exists /\ d.staat = "geen_db"
    THEN [conn |-> GeenConn, db |-> d]
    ELSE LET nieuw == [exists |-> TRUE,
                       staat |-> IF d.exists THEN d.staat ELSE "ok",
                       tabel |-> TRUE,
                       rijen |-> IF d.exists /\ d.tabel THEN d.rijen ELSE <<>>]
         IN  [conn |-> connect(nieuw), db |-> nieuw]

\* lines 229-246: PRAGMA optimize, VACUUM, commit; VACUUM raises sqlite3.Error
\* inside an open transaction, and the commit after it is then skipped
optimize_database(d, c) ==
    IF c.in_transactie
    THEN [db |-> d, conn |-> c]
    ELSE [db |-> [d EXCEPT !.rijen = c.zicht], conn |-> c]

\* a check that ignores the answer of PRAGMA integrity_check
check_zonder_integriteit(d) ==
    IF ~ d.exists THEN [result |-> FALSE, db |-> d, verwijderd |-> 0]
    ELSE IF d.staat = "geen_db" THEN [result |-> FALSE, db |-> Afwezig, verwijderd |-> 1]
    ELSE IF ~ d.tabel THEN [result |-> FALSE, db |-> d, verwijderd |-> 0]
    ELSE [result |-> Len(d.rijen) > 0, db |-> d, verwijderd |-> 0]

\* a check that repairs a file that fails PRAGMA integrity_check in place, and
\* reports it as unusable for this once
check_die_herstelt(d) ==
    IF ~ d.exists THEN [result |-> FALSE, db |-> d, verwijderd |-> 0]
    ELSE IF d.staat = "geen_db" THEN [result |-> FALSE, db |-> Afwezig, verwijderd |-> 1]
    ELSE IF d.staat = "integriteit"
    THEN [result |-> FALSE, db |-> [d EXCEPT !.staat = "ok"], verwijderd |-> 0]
    ELSE IF ~ d.tabel THEN [result |-> FALSE, db |-> d, verwijderd |-> 0]
    ELSE [result |-> Len(d.rijen) > 0, db |-> d, verwijderd |-> 0]

\* lines 95-144: the integrity check; a damaged file is removed
check_and_repair_database(d) ==
    IF ~ d.exists THEN [result |-> FALSE, db |-> d, verwijderd |-> 0]
    ELSE IF d.staat # "ok" THEN [result |-> FALSE, db |-> Afwezig, verwijderd |-> 1]
    ELSE IF ~ d.tabel THEN [result |-> FALSE, db |-> d, verwijderd |-> 0]
    ELSE [result |-> Len(d.rijen) > 0, db |-> d, verwijderd |-> 0]

\* lines 162-192: the cache is built from the downloaded lines.  soort: "conn" (a
\* connection is returned), "init" (init_database returned None: RuntimeError) or
\* "UnboundLocalError" (verbose, after an IntegrityError: toegevoegde_woorden was
\* never assigned; the exception passes the handler at line 194, so the connection
\* of init_database is closed by nobody and stays open, in its transaction)
bouw_database(alle_woorden, d, verbose) ==
    LET data == woorden_data(alle_woorden)
        begin == init_database(d)
        ingevoegd == executemany(begin.db.rijen, data)
    IN  IF ~ begin.conn.open
        THEN [soort |-> "init", db |-> d, conn |-> GeenConn,
              verwijderd |-> 0, vers |-> data]
        ELSE IF ~ ingevoegd.fout
        THEN LET klaar == optimize_database(
                            [begin.db EXCEPT !.rijen = ingevoegd.rijen],
                            [begin.conn EXCEPT !.zicht = ingevoegd.rijen])
             IN  [soort |-> "conn", db |-> klaar.db, conn |-> klaar.conn,
                  verwijderd |-> 0, vers |-> data]
        ELSE IF verbose
        THEN [soort |-> "UnboundLocalError", db |-> begin.db,
              conn |-> [begin.conn EXCEPT !.zicht = ingevoegd.rijen,
                                          !.in_transactie = TRUE],
              verwijderd |-> 0, vers |-> data]
        ELSE LET klaar == optimize_database(begin.db,
                            [begin.conn EXCEPT !.zicht = ingevoegd.rijen,
                                               !.in_transactie = TRUE])
             IN  [soort |-> "conn", db |-> klaar.db, conn |-> klaar.conn,
                  verwijderd |-> 0, vers |-> data]

\* A built-in word list, as the specification describes one; the program has none.
IngebouwdeWoorden == << <<"b">>, <<"a", "b">> >>

\* a word source that builds the cache from the built-in list when the fetch fails
download_and_create_database_met_terugval(r, d, verbose) ==
    IF ~ r.ok
    THEN bouw_database(IngebouwdeWoorden, d, verbose)
    ELSE bouw_database(r.regels, d, verbose)

\* lines 146-208: the fetch, then the build; a failed fetch ("RequestException")
\* removes the file and raises RuntimeError
download_and_create_database(r, d, verbose) ==
    IF ~ r.ok
    THEN [soort |-> "RequestException", db |-> Afwezig, conn |-> GeenConn,
          verwijderd |-> IF d.exists THEN 1 ELSE 0, vers |-> <<>>]
    ELSE bouw_database(r.regels, d, verbose)

RECURSIVE per_lengte(_, _, _)
\* the words of the rows whose lengte lies in lo..hi, by lengte, then by rowid
per_lengte(rijen, lo, hi) ==
    IF lo > hi THEN <<>>
    ELSE LET RECURSIVE oplopend(_, _)
             oplopend(n, acc) ==
                 IF n > Len(rijen) THEN acc
                 ELSE oplopend(n + 1, IF rijen[n].lengte = lo
                                      THEN Append(acc, rijen[n].woord) ELSE acc)
         IN  oplopend(1, <<>>) \o per_lengte(rijen, lo + 1, hi)

\* a query whose upper bound is exclusive
get_woorden_exclusief(c, min_woord_lengte, max_woord_lengte) ==
    IF ~ c.tabel THEN <<>>
    ELSE per_lengte(c.zicht, min_woord_lengte, max_woord_lengte - 1)

\* lines 210-227: SELECT woord FROM woorden WHERE lengte >= ? AND lengte <= ?,
\* answered through idx_lengte; [] on sqlite3.Error (no table)
get_woorden_from_database(c, min_woord_lengte, max_woord_lengte) ==
    IF ~ c.tabel THEN <<>>
    ELSE per_lengte(c.zicht, min_woord_lengte, max_woord_lengte)

----------------------------------------------------------------------------
(* download_woordenlijst, step by step *)

\* What one run did: the file it found, the answer of check_and_repair_database,
\* how download_and_create_database ended, how often the file was removed, the
\* filtered words of the list it fetched, the process exit code (-1: running), the
\* calls of genereer_meerdere_wachtwoorden, the kinds of lines written to standard
\* output and the passwords printed.
LogBegin(d) ==
    [begin |-> d, controle |-> "", download |-> "", verwijderd |-> 0,
     vers |-> <<>>, exit_code |-> -1, generaties |-> 0, stdout |-> {},
     afgedrukt |-> <<>>]

\* print(...) without file=sys.stderr, under `if verbose:`: a line of the kind
\* soort goes to standard output
print_verbose(l, verbose, soort) ==
    IF verbose THEN [l EXCEPT !.stdout = @ \cup {soort}] ELSE l

\* the argparse namespace, with the values the model uses where a run does not
\* choose them
ModelArgs ==
    [verbose |-> FALSE, aantal |-> 1, min_woord_lengte |-> 1, max_woord_lengte |-> 2,
     min_wachtwoord_lengte |-> 0, min_aantal_woorden |-> 1, max_aantal_woorden |-> 1,
     speciale_tekens |-> <<"!">>, max_pogingen |-> 1]

GeenRemote == [ok |-> FALSE, regels |-> <<>>]

\* lines 254-261: the cache is checked; a valid one is opened
DwControle ==
    /\ pc = "dw_check"
    /\ LET c == check_and_repair_database(db)
       IN  /\ db' = c.db
           /\ conn' = IF c.result THEN connect(c.db) ELSE GeenConn
           /\ pc' = IF c.result THEN "dw_query" ELSE "dw_download"
           /\ log' = print_verbose(
                        [log EXCEPT !.controle = IF c.result THEN "True" ELSE "False",
                                    !.verwijderd = @ + c.verwijderd],
                        args.verbose, "bron")
    /\ UNCHANGED <<args, remote, woordenlijst, par, lusVars>>

\* line 263: no valid cache, so the list is fetched and the cache built; an
\* exception ends the call with the empty list (lines 271-277)
DwDownload ==
    /\ pc = "dw_download"
    /\ LET r == download_and_create_database(remote, db, args.verbose)
       IN  /\ db' = r.db
           /\ conn' = r.conn
           /\ log' = print_verbose(
                        [log EXCEPT !.download = r.soort,
                                    !.verwijderd = @ + r.verwijderd,
                                    !.vers = r.vers],
                        args.verbose, "bron")
           /\ pc' = IF r.soort = "conn" THEN "dw_query" ELSE "dw_return"
    /\ woordenlijst' = <<>>
    /\ UNCHANGED <<args, remote, par, lusVars>>

\* lines 265-277: the query, and the close of the connection (rows that were never
\* committed are gone with it)
DwHaalOp ==
    /\ pc = "dw_query"
    /\ woordenlijst' = get_woorden_from_database(conn, args.min_woord_lengte,
                                                 args.max_woord_lengte)
    /\ conn' = GeenConn
    /\ pc' = "dw_return"
    /\ log' = print_verbose(log, args.verbose /\ conn.tabel, "bron")
    /\ UNCHANGED <<args, db, remote, par, lusVars>>

----------------------------------------------------------------------------
(* genereer_meerdere_wachtwoorden: the bounded retry loop, one slot at a time *)

\* Python's None, and a string value, for the local `wachtwoord`
Geen == [none |-> TRUE, s |-> <<>>]
Wel(s) == [none |-> FALSE, s |-> s]

\* line 392: the while condition
mag_proberen(pogingen_, max_pogingen) == pogingen_ < max_pogingen

\* a loop that counts None as a failed attempt and tries again
na_poging_zonder_break(r, p, pogingen_) ==
    CASE r.soort = "ValueError" ->
            [pc |-> "raise", wachtwoord |-> Geen, pogingen |-> pogingen_]
      [] r.soort = "None" ->
            [pc |-> "while", wachtwoord |-> Geen, pogingen |-> pogingen_ + 1]
      [] OTHER ->
            IF is_veilig_wachtwoord(r.wachtwoord, p.min_wachtwoord_lengte, p.speciale_tekens)
            THEN [pc |-> "na_while", wachtwoord |-> Wel(r.wachtwoord), pogingen |-> pogingen_]
            ELSE [pc |-> "while", wachtwoord |-> Wel(r.wachtwoord), pogingen |-> pogingen_ + 1]

\* lines 393-407: what one pass of the while body does with the result r of
\* genereer_wachtwoord: leave the loop (None, or a secure candidate), count a
\* failed attempt, or let the ValueError propagate
na_poging(r, p, pogingen_) ==
    CASE r.soort = "ValueError" ->
            [pc |-> "raise", wachtwoord |-> Geen, pogingen |-> pogingen_]
      [] r.soort = "None" ->
            [pc |-> "na_while", wachtwoord |-> Geen, pogingen |-> pogingen_]
      [] OTHER ->
            IF is_veilig_wachtwoord(r.wachtwoord, p.min_wachtwoord_lengte, p.speciale_tekens)
            THEN [pc |-> "na_while", wachtwoord |-> Wel(r.wachtwoord), pogingen |-> pogingen_]
            ELSE [pc |-> "while", wachtwoord |-> Wel(r.wachtwoord), pogingen |-> pogingen_ + 1]

\* an append that does not check the candidate again
neemt_op_ongecontroleerd(w, p) == ~ w.none

\* line 409: whether the slot's candidate is appended
neemt_op(w, p) ==
    ~ w.none /\ is_veilig_wachtwoord(w.s, p.min_wachtwoord_lengte, p.speciale_tekens)

\* lines 384-390: the call starts with an empty list; range(aantal) is empty for
\* aantal <= 0
BeginAanroep ==
    /\ pc = "call"
    /\ wachtwoorden' = <<>>
    /\ i' = 0
    /\ pogingen' = 0
    /\ wachtwoord' = Geen
    /\ aanroepen' = 0
    /\ slots' = <<>>
    /\ pc' = IF par.aantal > 0 THEN "while" ELSE "return"
    /\ log' = print_verbose(log, args.verbose /\ par.aantal > 0, "poging")
    /\ UNCHANGED <<args, bronVars, woordenlijst, par>>

\* lines 392-407: one pass of the while loop
Poging ==
    /\ pc = "while"
    /\ mag_proberen(pogingen, par.max_pogingen)
    /\ \E r \in genereer_wachtwoord(par.woordenlijst, par.min_aantal_woorden,
                                    par.max_aantal_woorden, par.min_wachtwoord_lengte,
                                    par.speciale_tekens) :
          LET na == na_poging(r, par, pogingen)
          IN  /\ pc' = na.pc
              /\ wachtwoord' = na.wachtwoord
              /\ pogingen' = na.pogingen
              /\ log' = print_verbose(log, args.verbose /\ r.soort = "ok", "poging")
    /\ aanroepen' = aanroepen + 1
    /\ UNCHANGED <<args, bronVars, woordenlijst, par, wachtwoorden, i, slots>>

\* lines 409-417: the slot ends (after a break, or with the attempts used up): the
\* candidate is appended or the slot is skipped, and the for loop goes on or the
\* list is returned
SlotEinde ==
    /\ \/ pc = "na_while"
       \/ pc = "while" /\ ~ mag_proberen(pogingen, par.max_pogingen)
    /\ wachtwoorden' = IF neemt_op(wachtwoord, par)
                       THEN Append(wachtwoorden, wachtwoord.s) ELSE wachtwoorden
    /\ slots' = Append(slots, [einde |-> IF neemt_op(wachtwoord, par)
                                         THEN "toegevoegd" ELSE "overgeslagen",
                               aanroepen |-> aanroepen])
    /\ i' = i + 1
    /\ pogingen' = 0
    /\ wachtwoord' = Geen
    /\ aanroepen' = 0
    /\ pc' = IF i + 1 < par.aantal THEN "while" ELSE "return"
    /\ log' = print_verbose(log, args.verbose /\ (neemt_op(wachtwoord, par)
                                                    \/ i + 1 < par.aantal), "poging")
    /\ UNCHANGED <<args, bronVars, woordenlijst, par>>

----------------------------------------------------------------------------
(* SpecGen: genereer_meerdere_wachtwoorden called directly, with any arguments *)

w_b == <<"b">>
w_ab == <<"a", "b">>
w_alef == <<"alef">>
w_kra == <<"kra">>

\* [woordenlijst, min_aantal_woorden, max_aantal_woorden, min_wachtwoord_lengte,
\*  speciale_tekens] of the calls the model makes
GenGevallen ==
    { << <<>>, 1, 2, 0, <<"!">> >>,                 \* no words at all
      << <<w_b>>, 2, 2, 0, <<"!">> >>,              \* fewer words than asked for
      << <<w_b>>, 1, 1, 4, <<"!">> >>,              \* padding needed
      << <<w_b>>, 1, 3, -1, <<"@", "#">> >>,        \* maximum clamped to the list
      << <<w_b, w_alef>>, 1, 1, 0, <<"!">> >>,      \* some candidates without upper case
      << <<w_alef>>, 1, 1, 4, <<"!">> >>,           \* no candidate with upper case
      << <<w_ab, w_b>>, 2, 2, 0, <<>> >>,           \* empty special-character set
      << <<w_ab, w_b>>, 2, 2, 0, <<"!">> >>,        \* two words, always secure
      << <<w_b>>, 0, 1, 0, <<"!">> >>,              \* zero words allowed
      << <<w_ab>>, 1, 1, 5, <<"-", "!">> >>,        \* one word, "-" a special character
      << <<w_kra>>, 1, 1, 0, <<"!">> >> }           \* lower case without upper case

InitGen ==
    /\ pc = "call"
    /\ \E g \in GenGevallen, n \in 0..MaxAantal, m \in 0..MaxPogingen :
          par = [woordenlijst |-> g[1], aantal |-> n, min_aantal_woorden |-> g[2],
                 max_aantal_woorden |-> g[3], min_wachtwoord_lengte |-> g[4],
                 speciale_tekens |-> g[5], max_pogingen |-> m]
    /\ args = ModelArgs
    /\ db = Afwezig
    /\ remote = GeenRemote
    /\ conn = GeenConn
    /\ woordenlijst = <<>>
    /\ wachtwoorden = <<>>
    /\ i = 0
    /\ pogingen = 0
    /\ wachtwoord = Geen
    /\ aanroepen = 0
    /\ slots = <<>>
    /\ log = LogBegin(Afwezig)

NextGen == BeginAanroep \/ Poging \/ SlotEinde

SpecGen == InitGen /\ [][NextGen]_vars

----------------------------------------------------------------------------
(* Claims about the retry loop, checked under SpecGen *)

\* C1: every password in the list built by genereer_meerdere_wachtwoorden
\* satisfies is_veilig_wachtwoord for the call's minimum length and special
\* characters; a candidate that fails the predicate is never appended.
C1_ReturnedAreSecure ==
    /\ \A n \in 1..Len(wachtwoorden) :
          is_veilig_wachtwoord(wachtwoorden[n], par.min_wachtwoord_lengte,
                               par.speciale_tekens)
    /\ Cardinality({n \in 1..Len(slots) : slots[n].einde = "toegevoegd"})
          = Len(wachtwoorden)

\* C1 witness: the call returned a non-empty list although one slot used up its
\* attempts on candidates that fail the predicate.
C1_Witness ==
    /\ pc = "return"
    /\ Len(wachtwoorden) > 0
    /\ \E n \in 1..Len(slots) :
          slots[n].einde = "overgeslagen" /\ slots[n].aanroepen > 0

\* C2: every string genereer_wachtwoord returns is at least
\* min_wachtwoord_lengte long, whatever was drawn.
C2_PaddingLaw ==
    ~ wachtwoord.none => Len(wachtwoord.s) >= par.min_wachtwoord_lengte

\* C2 witness: a returned string that needed padding (the one-word candidate has
\* three characters, the minimum is four).
C2_Witness ==
    /\ ~ wachtwoord.none
    /\ par.woordenlijst = <<w_b>>
    /\ par.min_wachtwoord_lengte = 4
    /\ Len(wachtwoord.s) = 4
    /\ isdigit(wachtwoord.s[4])

\* C3: every slot calls genereer_wachtwoord at most max_pogingen times and ends by
\* appending one valid password or by being skipped; no slot aborts the call, and
\* the list has at most `aantal` entries.
C3_SlotsEndByAppendOrSkip ==
    /\ aanroepen <= par.max_pogingen
    /\ \A n \in 1..Len(slots) : slots[n].aanroepen <= par.max_pogingen
    /\ Len(wachtwoorden) <= par.aantal
    /\ pc # "raise"
    /\ pc = "return" => Len(slots) = Max(par.aantal, 0)

\* C4 as stated: with fewer words than min_aantal_woorden every call returns None,
\* the list stays empty, nothing is raised, and each slot ends after exactly one
\* generation call.
C4_SingleCallPerSlot ==
    Len(par.woordenlijst) < par.min_aantal_woorden =>
        /\ wachtwoord.none
        /\ wachtwoorden = <<>>
        /\ pc # "raise"
        /\ pc = "return" => Len(slots) = par.aantal
        /\ \A n \in 1..Len(slots) :
              slots[n].einde = "overgeslagen" /\ slots[n].aanroepen = 1

\* C4 amended: as C4, but a slot ends after exactly one generation call only when
\* max_pogingen >= 1; with max_pogingen = 0 the slot is skipped without any call.
C4_AtMostOneCallPerSlot ==
    Len(par.woordenlijst) < par.min_aantal_woorden =>
        /\ wachtwoord.none
        /\ wachtwoorden = <<>>
        /\ pc # "raise"
        /\ aanroepen <= 1
        /\ pc = "return" => Len(slots) = par.aantal
        /\ \A n \in 1..Len(slots) :
              /\ slots[n].einde = "overgeslagen"
              /\ slots[n].aanroepen = IF par.max_pogingen >= 1 THEN 1 ELSE 0

\* C4 witness: two slots were asked for with too few words and max_pogingen = 2;
\* the call returned the empty list after one generation call per slot.
C4_Witness ==
    /\ Len(par.woordenlijst) < par.min_aantal_woorden
    /\ pc = "return"
    /\ par.aantal = 2
    /\ par.max_pogingen = 2
    /\ wachtwoorden = <<>>
    /\ Len(slots) = 2
    /\ slots[1].aanroepen = 1
    /\ slots[2].aanroepen = 1

----------------------------------------------------------------------------
(* The shape of the passwords, under SpecGen *)

\* the strings the call has produced so far: the candidate of the running slot and
\* the passwords in the list
Geproduceerd ==
    {wachtwoorden[n] : n \in 1..Len(wachtwoorden)}
        \cup (IF wachtwoord.none THEN {} ELSE {wachtwoord.s})

\* the word w with its first letter in upper case and its other letters in lower
\* case
MetHoofdletter(w) ==
    [n \in 1..Len(w) |->
        IF n = 1 THEN (IF w[n] = "a" THEN "A" ELSE IF w[n] = "b" THEN "B" ELSE w[n])
        ELSE (IF w[n] = "A" THEN "a" ELSE IF w[n] = "B" THEN "b" ELSE w[n])]

\* s is the word W with one digit followed by one character of tekens put in front
\* of it, behind it or inside it, and then digits only
EenWoordVorm(s, W, tekens) ==
    /\ Len(s) >= Len(W) + 2
    /\ \E m \in 0..Len(W) :
          /\ SubSeq(s, 1, m) = SubSeq(W, 1, m)
          /\ s[m + 1] \in Decimaal
          /\ s[m + 2] \in tekens
          /\ SubSeq(s, m + 3, Len(W) + 2) = SubSeq(W, m + 1, Len(W))
    /\ \A n \in (Len(W) + 3)..Len(s) : s[n] \in Decimaal

\* the call asks for exactly one word and the vocabulary has exactly one
EenWoord ==
    /\ par.min_aantal_woorden = 1
    /\ par.max_aantal_woorden = 1
    /\ Len(par.woordenlijst) = 1

\* C17 (as stated): with one word asked for and a vocabulary of one word, every
\* password is that word capitalized plus the injected digit and special character
\* and trailing padding digits, and it has no hyphen.
C17_OneWordNoHyphen ==
    EenWoord =>
        \A s \in Geproduceerd :
            /\ EenWoordVorm(s, MetHoofdletter(par.woordenlijst[1]),
                            IF par.speciale_tekens = <<>> THEN {"!"}
                            ELSE Tekens(par.speciale_tekens))
            /\ "-" \notin Tekens(s)

\* C17 (amended): with one word asked for and a vocabulary of one word, every
\* password is that word capitalized plus the injected digit and special character
\* and trailing padding digits; it has no hyphen as a separator, a hyphen occurs in
\* it only as the special character drawn from the configured set.
C17_OneWordShape ==
    EenWoord =>
        \A s \in Geproduceerd :
            /\ EenWoordVorm(s, MetHoofdletter(par.woordenlijst[1]),
                            IF par.speciale_tekens = <<>> THEN {"!"}
                            ELSE Tekens(par.speciale_tekens))
            /\ "-" \in Tekens(s) => "-" \in Tekens(par.speciale_tekens)
            /\ Cardinality({n \in 1..Len(s) : s[n] = "-"}) <= 1

\* a padded one-word password with the hyphen as its special character is in the
\* list
C17_Witness ==
    /\ EenWoord
    /\ wachtwoorden # <<>>
    /\ "-" \in Tekens(wachtwoorden[1])
    /\ Len(wachtwoorden[1]) > Len(par.woordenlijst[1]) + 2
    /\ "A" \in Tekens(wachtwoorden[1])

\* the arguments under which every candidate is expected to be secure, for words
\* made of the letters of `letters`
Gunstig(letters) ==
    /\ par.min_aantal_woorden >= 1
    /\ Len(par.woordenlijst) >= par.min_aantal_woorden
    /\ par.min_aantal_woorden <= par.max_aantal_woorden
    /\ \A n \in 1..Len(par.woordenlijst) :
          /\ Len(par.woordenlijst[n]) > 0
          /\ \A c \in Tekens(par.woordenlijst[n]) : c \in letters
    /\ Len(par.speciale_tekens) > 0
    /\ par.max_pogingen >= 1

\* every slot so far ended with its first candidate appended, and the list
\* returned has `aantal` entries
EerstePogingSlaagt ==
    /\ pogingen = 0
    /\ aanroepen <= 1
    /\ pc # "raise"
    /\ \A n \in 1..Len(slots) :
          slots[n].einde = "toegevoegd" /\ slots[n].aanroepen = 1
    /\ ~ wachtwoord.none =>
          is_veilig_wachtwoord(wachtwoord.s, par.min_wachtwoord_lengte,
                               par.speciale_tekens)
    /\ pc = "return" => Len(wachtwoorden) = par.aantal

----------------------------------------------------------------------------
(* SpecDb: download_woordenlijst called again and again on one database path,
   while the file and the remote list change between the calls *)

\* the longest word length a call asks for
MaxLengte == 3

w_a == <<"a">>

Rij(w) == [woord |-> w, lengte |-> Len(w)]

\* a cache built by an earlier run
Gevuld ==
    [exists |-> TRUE, staat |-> "ok", tabel |-> TRUE, rijen |-> <<Rij(w_a), Rij(w_ab)>>]

\* the files a run can find at db_naam
BeginDbs ==
    { Afwezig,
      Gevuld,
      [Gevuld EXCEPT !.staat = "integriteit"],
      [exists |-> TRUE, staat |-> "geen_db", tabel |-> FALSE, rijen |-> <<>>],
      [exists |-> TRUE, staat |-> "ok", tabel |-> FALSE, rijen |-> <<>>] }

\* what the URL can answer: an error, or a text of lines
Remotes ==
    { GeenRemote,
      [ok |-> TRUE, regels |-> <<>>],
      [ok |-> TRUE, regels |-> <<w_b, w_ab>>],
      [ok |-> TRUE, regels |-> <<w_b, w_b, w_ab>>],
      [ok |-> TRUE, regels |-> << <<" ", "b", " ">>, <<"a", "'", "b">>, <<"b", "1">>,
                                  <<>>, w_alef, <<"B", "a">> >>] }

InitDb ==
    /\ pc = "dw_check"
    /\ \E lo \in 0..MaxLengte, hi \in 0..MaxLengte, v \in BOOLEAN :
          args = [ModelArgs EXCEPT !.min_woord_lengte = lo, !.max_woord_lengte = hi,
                                   !.verbose = v]
    /\ db \in BeginDbs
    /\ remote \in Remotes
    /\ conn = GeenConn
    /\ woordenlijst = <<>>
    /\ par = [woordenlijst |-> <<>>, aantal |-> 0, min_aantal_woorden |-> 1,
              max_aantal_woorden |-> 1, min_wachtwoord_lengte |-> 0,
              speciale_tekens |-> <<"!">>, max_pogingen |-> 0]
    /\ wachtwoorden = <<>>
    /\ i = 0
    /\ pogingen = 0
    /\ wachtwoord = Geen
    /\ aanroepen = 0
    /\ slots = <<>>
    /\ log = LogBegin(db)

\* the next run of the program on the same path, in a new process
Herstart ==
    /\ pc \in {"dw_return", "tussen"}
    /\ \E lo \in 0..MaxLengte, hi \in 0..MaxLengte, v \in BOOLEAN :
          args' = [args EXCEPT !.min_woord_lengte = lo, !.max_woord_lengte = hi,
                               !.verbose = v]
    /\ woordenlijst' = <<>>
    /\ log' = LogBegin(db)
    /\ pc' = "dw_check"
    /\ conn' = GeenConn
    /\ UNCHANGED <<db, remote, par, lusVars>>

\* between two runs the file is damaged
Beschadig ==
    /\ pc \in {"dw_return", "tussen"}
    /\ db.exists
    /\ db.staat = "ok"
    /\ \/ db' = [db EXCEPT !.staat = "integriteit"]
       \/ db' = [exists |-> TRUE, staat |-> "geen_db", tabel |-> FALSE, rijen |-> <<>>]
    /\ pc' = "tussen"
    /\ UNCHANGED <<args, remote, conn, woordenlijst, par, lusVars, log>>

\* between two runs the remote list changes, or the network comes and goes
RemoteWijzigt ==
    /\ pc \in {"dw_return", "tussen"}
    /\ remote' \in Remotes \ {remote}
    /\ pc' = "tussen"
    /\ UNCHANGED <<args, db, conn, woordenlijst, par, lusVars, log>>

NextDb == DwControle \/ DwDownload \/ DwHaalOp \/ Herstart \/ Beschadig \/ RemoteWijzigt

SpecDb == InitDb /\ [][NextDb]_vars

----------------------------------------------------------------------------
(* The word source, under SpecDb *)

\* how often the word w occurs in the list s
Aantal(s, w) == Cardinality({n \in 1..Len(s) : s[n] = w})

\* the run found no usable cache and the fetch failed
BronOnbereikbaar ==
    /\ pc = "dw_return"
    /\ log.controle = "False"
    /\ ~ remote.ok

C8_AllDistinctWordsPersisted ==
    (pc \in {"dw_query", "dw_return"} /\ log.download \in {"conn", "UnboundLocalError"}) =>
        \A n \in 1..Len(log.vers) :
            \E k \in 1..Len(db.rijen) :
                /\ db.rijen[k].woord = log.vers[n].woord
                /\ db.rijen[k].lengte = Len(log.vers[n].woord)

\* C9: every word in the cache is returned exactly once by
\* get_woorden_from_database for each range [min_len, max_len] that contains its
\* length, and not at all for a range that excludes it.
C9_CacheRoundTrip ==
    (conn.open /\ conn.tabel) =>
        \A lo \in 0..MaxLengte, hi \in 0..MaxLengte, n \in 1..Len(conn.zicht) :
            LET woord == conn.zicht[n].woord
            IN  Aantal(get_woorden_from_database(conn, lo, hi), woord)
                  = IF lo <= Len(woord) /\ Len(woord) <= hi THEN 1 ELSE 0

\* words of two different lengths have just been inserted, and are about to be
\* queried
C9_Witness ==
    /\ pc = "dw_query"
    /\ log.download = "conn"
    /\ conn.open
    /\ ~ conn.in_transactie
    /\ \E n, m \in 1..Len(conn.zicht) : conn.zicht[n].lengte < conn.zicht[m].lengte
    /\ args.min_woord_lengte <= 1
    /\ args.max_woord_lengte >= 2

\* the run found a file at the database path that fails the integrity check
CacheBeschadigd ==
    /\ log.begin.exists
    /\ log.begin.staat # "ok"

\* C10: when the cache file exists but fails the integrity check,
\* download_woordenlijst removes the file, fetches afresh and, when the fetch
\* succeeds, builds a new cache; the vocabulary it returns holds only words of the
\* fetched list, and no row of the discarded cache survives in the new one.
C10_CorruptCacheReplaced ==
    (pc = "dw_return" /\ CacheBeschadigd) =>
        /\ log.controle = "False"
        /\ log.verwijderd >= 1
        /\ log.download # ""
        /\ \A n \in 1..Len(woordenlijst) :
              \E k \in 1..Len(log.vers) : log.vers[k].woord = woordenlijst[n]
        /\ \A n \in 1..Len(db.rijen) :
              \E k \in 1..Len(log.vers) : log.vers[k] = db.rijen[n]
        /\ log.download # "RequestException" =>
              (db.exists /\ db.tabel /\ db.staat = "ok")

\* a cache with rows failed the integrity check, and the run returned words of the
\* list it fetched
C10_Witness ==
    /\ pc = "dw_return"
    /\ log.begin.staat = "integriteit"
    /\ Len(log.begin.rijen) > 0
    /\ log.verwijderd = 1
    /\ log.download = "conn"
    /\ woordenlijst # <<>>
    /\ db.exists

\* lines 248-277: one whole call of download_woordenlijst on the file d with the
\* URL answering r: the words returned, the file left behind, the answer of
\* check_and_repair_database and how download_and_create_database ended ("" when
\* it was not called)
download_woordenlijst(r, d, min_woord_lengte, max_woord_lengte, verbose) ==
    LET c == check_and_repair_database(d)
        x == download_and_create_database(r, c.db, verbose)
    IN  IF c.result
        THEN [woorden |-> get_woorden_from_database(connect(c.db), min_woord_lengte,
                                                    max_woord_lengte),
              db |-> c.db, controle |-> TRUE, download |-> ""]
        ELSE IF x.soort = "conn"
        THEN [woorden |-> get_woorden_from_database(x.conn, min_woord_lengte,
                                                    max_woord_lengte),
              db |-> x.db, controle |-> FALSE, download |-> x.soort]
        ELSE [woorden |-> <<>>, db |-> x.db, controle |-> FALSE, download |-> x.soort]

\* the run fetched a list with at least one surviving word and built the cache
\* from it
CacheGebouwd ==
    /\ pc = "dw_return"
    /\ log.download = "conn"
    /\ Len(log.vers) > 0

\* C11: after a run that fetched the list and built the cache, the following run on
\* the same, unmodified path passes check_and_repair_database and takes its
\* vocabulary from the cache without fetching again, with the same result for the
\* same length range, whatever the URL answers by then.
C11_CacheReadOnNextRun ==
    CacheGebouwd =>
        \A r \in Remotes :
            LET volgende == download_woordenlijst(r, db, args.min_woord_lengte,
                                                  args.max_woord_lengte, args.verbose)
            IN  /\ volgende.controle
                /\ volgende.download = ""
                /\ volgende.woorden = woordenlijst
                /\ volgende.db = db

\* C12: check_and_repair_database called twice in a row on the same path returns
\* the same boolean both times, for every state of the file: also right after the
\* call the run itself has made.
C12_CheckIdempotent ==
    LET eerste == check_and_repair_database(db)
        tweede == check_and_repair_database(eerste.db)
    IN  /\ tweede.result = eerste.result
        /\ tweede.db = eerste.db
        /\ pc = "dw_download" => ~ eerste.result
        /\ (pc = "dw_query" /\ log.controle = "True") => eerste.result

\* the run's own check has just removed a cache with rows that failed the integrity
\* check; a second check finds no file
C12_Witness ==
    /\ pc = "dw_download"
    /\ log.begin.staat = "integriteit"
    /\ Len(log.begin.rijen) > 0
    /\ log.verwijderd = 1
    /\ ~ db.exists
    /\ ~ check_and_repair_database(db).result

\* C13: every word download_woordenlijst returns, read from an existing cache or
\* from one it has just built, is alphabetic, has no apostrophe and has a length
\* within [min_woord_lengte, max_woord_lengte].
C13_ReturnedWordsPassFilter ==
    pc = "dw_return" =>
        \A n \in 1..Len(woordenlijst) :
            /\ isalpha(woordenlijst[n])
            /\ "'" \notin Tekens(woordenlijst[n])
            /\ args.min_woord_lengte <= Len(woordenlijst[n])
            /\ Len(woordenlijst[n]) <= args.max_woord_lengte

\* words are returned from a cache built from a list of which some lines did not
\* survive the filter, for a range that leaves out some of the surviving words
C13_Witness ==
    /\ pc = "dw_return"
    /\ log.download = "conn"
    /\ Len(log.vers) < Len(remote.regels)
    /\ woordenlijst # <<>>
    /\ Len(woordenlijst) < Len(log.vers)

----------------------------------------------------------------------------
(* Spec: the command line program, from the parsed arguments to the exit code *)

\* a validation that accepts a minimum word length below 1
valideer_zonder_woord_lengte(a) ==
    IF a.min_woord_lengte > a.max_woord_lengte THEN 1
    ELSE IF a.min_aantal_woorden > a.max_aantal_woorden THEN 1
    ELSE IF a.speciale_tekens = <<>> THEN 1
    ELSE 0

\* a validation that accepts an empty special-character set
valideer_zonder_speciale_tekens(a) ==
    IF a.min_woord_lengte > a.max_woord_lengte THEN 1
    ELSE IF a.min_aantal_woorden > a.max_aantal_woorden THEN 1
    ELSE IF a.min_woord_lengte < 1 THEN 1
    ELSE 0

\* lines 461-475: the exit code of the first check that fails, 0 when the run goes
\* on; min_wachtwoord_lengte < 6 only prints a warning (lines 471-472)
valideer(a) ==
    IF a.min_woord_lengte > a.max_woord_lengte THEN 1
    ELSE IF a.min_aantal_woorden > a.max_aantal_woorden THEN 1
    ELSE IF a.min_woord_lengte < 1 THEN 1
    ELSE IF a.speciale_tekens = <<>> THEN 1
    ELSE 0

\* lines 461-486: the validation, and the settings printed when verbose
Valideer ==
    /\ pc = "main"
    /\ IF valideer(args) # 0
       THEN /\ pc' = "exit"
            /\ log' = [log EXCEPT !.exit_code = valideer(args)]
       ELSE /\ pc' = "dw_check"
            /\ log' = print_verbose(log, args.verbose, "instellingen")
    /\ UNCHANGED <<args, bronVars, woordenlijst, par, lusVars>>

\* a vocabulary check that lets every list pass
te_weinig_woorden_nooit(wl, a) == FALSE

\* line 492
te_weinig_woorden(wl, a) == Len(wl) < a.min_aantal_woorden

\* lines 492-512: too few words end the run with exit code 1; the maximum is
\* lowered to the size of the list only when verbose; then
\* genereer_meerdere_wachtwoorden is called
ControleerWoorden ==
    /\ pc = "dw_return"
    /\ IF te_weinig_woorden(woordenlijst, args)
       THEN /\ pc' = "exit"
            /\ log' = [log EXCEPT !.exit_code = 1]
            /\ UNCHANGED <<args, par>>
       ELSE /\ args' = IF Len(woordenlijst) < args.max_aantal_woorden /\ args.verbose
                       THEN [args EXCEPT !.max_aantal_woorden = Len(woordenlijst)]
                       ELSE args
            /\ par' = [woordenlijst |-> woordenlijst,
                       aantal |-> args'.aantal,
                       min_aantal_woorden |-> args'.min_aantal_woorden,
                       max_aantal_woorden |-> args'.max_aantal_woorden,
                       min_wachtwoord_lengte |-> args'.min_wachtwoord_lengte,
                       speciale_tekens |-> args'.speciale_tekens,
                       max_pogingen |-> args'.max_pogingen]
            /\ pc' = "call"
            /\ log' = [log EXCEPT !.generaties = @ + 1]
    /\ UNCHANGED <<bronVars, woordenlijst, lusVars>>

\* lines 514-517: the passwords are printed and the program ends
Afdrukken ==
    /\ pc = "return"
    /\ pc' = "exit"
    /\ log' = [log EXCEPT !.exit_code = 0,
                          !.afgedrukt = wachtwoorden,
                          !.stdout = IF wachtwoorden # <<>> THEN @ \cup {"wachtwoord"}
                                     ELSE @]
    /\ UNCHANGED <<args, bronVars, woordenlijst, par, lusVars>>

\* the ValueError of random.randint (line 301) is caught nowhere: traceback, exit
\* code 1
Afbreken ==
    /\ pc = "raise"
    /\ pc' = "exit"
    /\ log' = [log EXCEPT !.exit_code = 1]
    /\ UNCHANGED <<args, bronVars, woordenlijst, par, lusVars>>

\* the file and the URL answer of a run of the program
Omgevingen ==
    { <<Afwezig, GeenRemote>>,
      <<Afwezig, [ok |-> TRUE, regels |-> << <<" ", "b", " ">>, <<"a", "'", "b">>, w_alef >>]>>,
      <<Gevuld, GeenRemote>>,
      <<[Gevuld EXCEPT !.staat = "integriteit"], [ok |-> TRUE, regels |-> <<w_b, w_ab>>]>> }

\* the command lines the model runs: [min_aantal_woorden, max_aantal_woorden]
AantalWoordenOpties == { <<1, 1>>, <<2, 1>>, <<0, 1>> }

Init ==
    /\ pc = "main"
    /\ \E lo \in 0..2, hi \in 0..1, aw \in AantalWoordenOpties, ml \in {-1, 0, 4},
          st \in {<<>>, <<"!">>}, n \in 1..MaxAantal, v \in BOOLEAN :
          args = [verbose |-> v, aantal |-> n, min_woord_lengte |-> lo,
                  max_woord_lengte |-> hi, min_wachtwoord_lengte |-> ml,
                  min_aantal_woorden |-> aw[1], max_aantal_woorden |-> aw[2],
                  speciale_tekens |-> st, max_pogingen |-> MaxPogingen]
    /\ \E o \in Omgevingen : db = o[1] /\ remote = o[2]
    /\ conn = GeenConn
    /\ woordenlijst = <<>>
    /\ par = [woordenlijst |-> <<>>, aantal |-> 0, min_aantal_woorden |-> 1,
              max_aantal_woorden |-> 1, min_wachtwoord_lengte |-> 0,
              speciale_tekens |-> <<"!">>, max_pogingen |-> 0]
    /\ wachtwoorden = <<>>
    /\ i = 0
    /\ pogingen = 0
    /\ wachtwoord = Geen
    /\ aanroepen = 0
    /\ slots = <<>>
    /\ log = LogBegin(db)

Next ==
    \/ Valideer
    \/ DwControle
    \/ DwDownload
    \/ DwHaalOp
    \/ ControleerWoorden
    \/ BeginAanroep
    \/ Poging
    \/ SlotEinde
    \/ Afdrukken
    \/ Afbreken

Spec == Init /\ [][Next]_vars

----------------------------------------------------------------------------
(* Configuration errors, under Spec *)

\* the run has not gone past the validation: the word source was not consulted and
\* genereer_meerdere_wachtwoorden was not called, and if the program has ended, it
\* ended with a non-zero exit code
GestoptBijValidatie ==
    /\ pc \in {"main", "exit"}
    /\ log.controle = ""
    /\ log.download = ""
    /\ log.generaties = 0
    /\ aanroepen = 0
    /\ pc = "exit" => log.exit_code > 0

\* min greater than max, an empty special-character set, a non-positive word length
OngeldigBehalveWachtwoordLengte ==
    \/ args.min_woord_lengte > args.max_woord_lengte
    \/ args.min_aantal_woorden > args.max_aantal_woorden
    \/ args.speciale_tekens = <<>>
    \/ args.min_woord_lengte <= 0
    \/ args.max_woord_lengte <= 0

\* C5 (as stated): every invalid combination, a non-positive minimum password
\* length included, ends the run with a non-zero exit code before the word source
\* is consulted and before any generation attempt.
C5_EveryInvalidCombinationIsFatal ==
    (OngeldigBehalveWachtwoordLengte \/ args.min_wachtwoord_lengte <= 0)
        => GestoptBijValidatie

\* C5 (amended): min greater than max (word length or word count), an empty
\* special-character set or a non-positive word length ends the run with a non-zero
\* exit code before the word source is consulted and before any generation
\* attempt; a non-positive minimum password length alone does not stop the run.
C5_InvalidExceptPasswordLengthIsFatal ==
    /\ OngeldigBehalveWachtwoordLengte => GestoptBijValidatie
    /\ (~ OngeldigBehalveWachtwoordLengte /\ pc = "exit") => log.controle # ""

\* a run stopped by nothing but the minimum word length of 0
C5_Witness ==
    /\ pc = "exit"
    /\ log.exit_code = 1
    /\ log.controle = ""
    /\ args.min_woord_lengte = 0
    /\ args.min_woord_lengte <= args.max_woord_lengte
    /\ args.min_aantal_woorden <= args.max_aantal_woorden
    /\ args.speciale_tekens # <<>>

\* C6: with an empty special-character set the program exits non-zero before
\* download_woordenlijst or genereer_meerdere_wachtwoorden is called, so every
\* call of genereer_meerdere_wachtwoorden has a non-empty special-character set.
C6_EmptySpecialsRejected ==
    /\ args.speciale_tekens = <<>> => GestoptBijValidatie
    /\ log.generaties > 0 => par.speciale_tekens # <<>>

\* a run stopped by nothing but the empty special-character set
C6_Witness ==
    /\ pc = "exit"
    /\ log.exit_code = 1
    /\ log.controle = ""
    /\ log.generaties = 0
    /\ args.speciale_tekens = <<>>
    /\ args.min_woord_lengte >= 1
    /\ args.min_woord_lengte <= args.max_woord_lengte
    /\ args.min_aantal_woorden <= args.max_aantal_woorden

----------------------------------------------------------------------------
(* Exit code and output streams, under Spec *)

\* C14: the program exits with code 0 when it has printed at least one password,
\* and with a non-zero code when the validation of the arguments fails or when the
\* word source yields fewer words than min_aantal_woorden.
C14_ExitCodes ==
    pc = "exit" =>
        /\ Len(log.afgedrukt) >= 1 => log.exit_code = 0
        /\ OngeldigBehalveWachtwoordLengte => log.exit_code > 0
        /\ (log.controle # "" /\ log.generaties = 0) =>
              (Len(woordenlijst) < args.min_aantal_woorden /\ log.exit_code > 0)
        /\ (log.controle # "" /\ Len(woordenlijst) < args.min_aantal_woorden) =>
              (log.exit_code > 0 /\ log.generaties = 0 /\ log.afgedrukt = <<>>)

\* a run that ended with exit code 1 because the word source had no words: the
\* fetch failed and there was no cache
C14_Witness ==
    /\ pc = "exit"
    /\ log.exit_code = 1
    /\ log.controle = "False"
    /\ log.download = "RequestException"
    /\ woordenlijst = <<>>
    /\ args.min_aantal_woorden = 1
    /\ log.generaties = 0

\* C15: standard output carries only the generated passwords; with the verbose
\* flag every diagnostic or progress line goes to another stream.
C15_StdoutOnlyPasswords ==
    log.stdout \subseteq {"wachtwoord"}

\* C28: for every configuration that passes the validation, a minimum or maximum
\* word count of 0 or less included, and every vocabulary with at least
\* min_aantal_woorden words, genereer_wachtwoord returns a string: no call raises.
C28_ValidatedConfigurationNeverRaises ==
    ( /\ valideer(args) = 0
      /\ aanroepen > 0
      /\ Len(par.woordenlijst) >= par.min_aantal_woorden )
        => /\ pc # "raise"
           /\ pc = "na_while" => ~ wachtwoord.none

----------------------------------------------------------------------------
(* SpecVeilig: is_veilig_wachtwoord called on any short string *)

\* the longest string the predicate is called on
MaxWachtwoord == 3

\* the characters of those strings: lower case, upper case, alphabetic without
\* case, digit, two symbols
Alfabet == {"a", "B", "alef", "1", "!", "-"}

\* the strings over Alfabet of length n
Strings(n) == [1..n -> Alfabet]

\* the sets of special characters of the calls: none, a symbol, a digit
SpecialeTekensOpties == {<<>>, <<"!">>, <<"1">>, <<"!", "-">>}

InitVeilig ==
    /\ pc = "controle"
    /\ \E n \in 0..MaxWachtwoord : \E s \in Strings(n) : wachtwoord = Wel(s)
    /\ \E m \in -1..(MaxWachtwoord + 1), st \in SpecialeTekensOpties :
          par = [woordenlijst |-> <<>>, aantal |-> 0, min_aantal_woorden |-> 1,
                 max_aantal_woorden |-> 1, min_wachtwoord_lengte |-> m,
                 speciale_tekens |-> st, max_pogingen |-> 0]
    /\ args = ModelArgs
    /\ db = Afwezig
    /\ remote = GeenRemote
    /\ conn = GeenConn
    /\ woordenlijst = <<>>
    /\ wachtwoorden = <<>>
    /\ i = 0
    /\ pogingen = 0
    /\ aanroepen = 0
    /\ slots = <<>>
    /\ log = LogBegin(Afwezig)

\* the call is_veilig_wachtwoord(wachtwoord, min_wachtwoord_lengte, speciale_tekens)
\* and its answer
Controle ==
    /\ pc = "controle"
    /\ pc' = IF is_veilig_wachtwoord(wachtwoord.s, par.min_wachtwoord_lengte,
                                     par.speciale_tekens)
             THEN "veilig" ELSE "onveilig"
    /\ UNCHANGED <<args, bronVars, woordenlijst, par, lusVars, log>>

NextVeilig == Controle

SpecVeilig == InitVeilig /\ [][NextVeilig]_vars

\* C16: is_veilig_wachtwoord answers true exactly when the string is at least
\* min_len long and holds an upper case letter, a digit and a character of the
\* special set; with an empty special set it answers false for every string.
C16_SecureIff ==
    pc \in {"veilig", "onveilig"} =>
        /\ (pc = "veilig") <=>
              /\ Len(wachtwoord.s) >= par.min_wachtwoord_lengte
              /\ \E n \in 1..Len(wachtwoord.s) : wachtwoord.s[n] \in Hoofd
              /\ \E n \in 1..Len(wachtwoord.s) : wachtwoord.s[n] \in Decimaal
              /\ \E n \in 1..Len(wachtwoord.s), m \in 1..Len(par.speciale_tekens) :
                    wachtwoord.s[n] = par.speciale_tekens[m]
        /\ par.speciale_tekens = <<>> => pc = "onveilig"

\* a string with an upper case letter, a digit and a special character that is one
\* character too short was answered with false
C16_Witness ==
    /\ pc = "onveilig"
    /\ Len(wachtwoord.s) = 3
    /\ par.min_wachtwoord_lengte = 4
    /\ "B" \in Tekens(wachtwoord.s)
    /\ "1" \in Tekens(wachtwoord.s)
    /\ "!" \in Tekens(wachtwoord.s)
    /\ par.speciale_tekens = <<"!">>

----------------------------------------------------------------------------
(* SpecSynthese: genereer_wachtwoord called once *)

\* a word with an upper case letter inside
w_aB == <<"a", "B">>

\* [woordenlijst, min_aantal_woorden, max_aantal_woorden, min_wachtwoord_lengte,
\*  speciale_tekens] of the calls
SyntheseGevallen ==
    { << <<w_a, w_b, w_ab>>, 3, 3, 10, <<"!">> >>,      \* padding needed
      << <<w_a, w_b, w_ab>>, 3, 3, 0, <<"!", "@">> >>,
      << <<w_alef, w_b, w_ab>>, 3, 3, 0, <<"!">> >>,    \* a word without case
      << <<w_a, w_b>>, 3, 3, 0, <<"!">> >>,             \* too few words
      << <<w_aB, w_b>>, 2, 2, 0, <<"!">> >>,
      << <<w_a, w_ab>>, 1, 3, 0, <<"-", "!">> >>,       \* maximum above the size
      << <<w_b, w_ab>>, 1, 2, 4, <<"!">> >> }

InitSynthese ==
    /\ pc = "gw"
    /\ \E g \in SyntheseGevallen :
          par = [woordenlijst |-> g[1], aantal |-> 1, min_aantal_woorden |-> g[2],
                 max_aantal_woorden |-> g[3], min_wachtwoord_lengte |-> g[4],
                 speciale_tekens |-> g[5], max_pogingen |-> 1]
    /\ args = ModelArgs
    /\ db = Afwezig
    /\ remote = GeenRemote
    /\ conn = GeenConn
    /\ woordenlijst = <<>>
    /\ wachtwoorden = <<>>
    /\ i = 0
    /\ pogingen = 0
    /\ wachtwoord = Geen
    /\ aanroepen = 0
    /\ slots = <<>>
    /\ log = LogBegin(Afwezig)

\* one call of genereer_wachtwoord: what it returns, and in slots the draws it
\* made
Genereer ==
    /\ pc = "gw"
    /\ \E r \in genereer_wachtwoord(par.woordenlijst, par.min_aantal_woorden,
                                    par.max_aantal_woorden, par.min_wachtwoord_lengte,
                                    par.speciale_tekens) :
          /\ wachtwoord' = IF r.soort = "ok" THEN Wel(r.wachtwoord) ELSE Geen
          /\ pc' = IF r.soort = "ok" THEN "gw_return" ELSE "gw_" \o r.soort
          /\ slots' = <<r>>
    /\ aanroepen' = aanroepen + 1
    /\ UNCHANGED <<args, bronVars, woordenlijst, par, wachtwoorden, i, pogingen,
                   log>>

NextSynthese == Genereer

SpecSynthese == InitSynthese /\ [][NextSynthese]_vars

\* the orders in which three words can be drawn from a vocabulary of three
Volgordes == {v \in [1..3 -> 1..3] : \A n, m \in 1..3 : v[n] = v[m] => n = m}

\* the three words in some order, one of them capitalized, joined by hyphens
DrieWoordBasissen ==
    { LET w == [n \in 1..3 |-> IF n = h THEN MetHoofdletter(par.woordenlijst[v[n]])
                               ELSE par.woordenlijst[v[n]]]
      IN  w[1] \o <<"-">> \o w[2] \o <<"-">> \o w[3]
      : v \in Volgordes, h \in 1..3 }

\* s is B with one of its hyphens replaced by a digit followed by a character of
\* tekens, and then digits only
PaarVervangtKoppelteken(s, B, tekens) ==
    /\ Len(s) >= Len(B) + 1
    /\ \E m \in 1..Len(B) :
          /\ B[m] = "-"
          /\ SubSeq(s, 1, m - 1) = SubSeq(B, 1, m - 1)
          /\ s[m] \in Decimaal
          /\ s[m + 1] \in tekens
          /\ SubSeq(s, m + 2, Len(B) + 1) = SubSeq(B, m + 1, Len(B))
    /\ \A n \in (Len(B) + 2)..Len(s) : s[n] \in Decimaal

\* three words asked for, from a vocabulary of three, and a string returned
DrieWoorden ==
    /\ pc = "gw_return"
    /\ par.min_aantal_woorden = 3
    /\ par.max_aantal_woorden = 3
    /\ Len(par.woordenlijst) = 3

----------------------------------------------------------------------------
(* SpecPush: send_pushover.py, from the command line to the exit code *)

\* the status codes the API answers with
StatusCodes == {200, 201, 400, 429, 500}

\* the bodies of an answer: a JSON object with a list of errors, one without
\* "errors", one with an empty list, JSON that is not an object, no JSON at all
Bodies == {"fouten", "zonder_fouten", "lege_fouten", "geen_object", "geen_json"}

\* lines 47-68: argparse ends the process with SystemExit(2) when a required
\* option is missing or when --priority is not one of the choices; 0: the
\* arguments are returned
parse_arguments(a) ==
    IF ~ a.token \/ ~ a.user \/ ~ a.message THEN 2
    ELSE IF a.priority \notin {-2, -1, 0, 1, 2} THEN 2
    ELSE 0

\* the truth value of a requests.Response, as `elif response:` (line 143) takes it:
\* Response.__bool__ is Response.ok, true for a status code below 400
bool_response(r) == r.status_code < 400

\* lines 70-100: (success, response) or the exception that leaves the function;
\* response.json() on a body that is no JSON raises a RequestException
send_pushover_notification(r) ==
    IF ~ r.verzonden
    THEN [success |-> FALSE, response |-> "None", exception |-> ""]
    ELSE IF r.status_code = 200
    THEN [success |-> TRUE, response |-> "Response", exception |-> ""]
    ELSE CASE r.body = "geen_json" ->
                [success |-> FALSE, response |-> "None", exception |-> ""]
           [] r.body = "geen_object" ->
                [success |-> FALSE, response |-> "None", exception |-> "AttributeError"]
           [] r.body = "lege_fouten" ->
                [success |-> FALSE, response |-> "None", exception |-> "IndexError"]
           [] OTHER ->
                [success |-> FALSE, response |-> "Response", exception |-> ""]

\* lines 102-150: the value main returns once the arguments are parsed
main(a, r) ==
    LET antwoord == send_pushover_notification(r)
    IN  IF a.priority \notin {-2, -1, 0, 1, 2} THEN 2
        ELSE IF antwoord.exception # "" THEN 5
        ELSE IF antwoord.success THEN 0
        ELSE IF antwoord.response = "Response" /\ bool_response(r) THEN 4
        ELSE 3

InitPush ==
    /\ pc = "po_main"
    /\ \E t \in BOOLEAN, u \in BOOLEAN, m \in BOOLEAN, p \in -3..3 :
          args = [token |-> t, user |-> u, message |-> m, priority |-> p]
    /\ \/ remote = [verzonden |-> FALSE, status_code |-> 0, body |-> "geen_json"]
       \/ \E st \in StatusCodes, b \in Bodies :
             remote = [verzonden |-> TRUE, status_code |-> st, body |-> b]
    /\ db = Afwezig
    /\ conn = GeenConn
    /\ woordenlijst = <<>>
    /\ par = [woordenlijst |-> <<>>, aantal |-> 0, min_aantal_woorden |-> 1,
              max_aantal_woorden |-> 1, min_wachtwoord_lengte |-> 0,
              speciale_tekens |-> <<"!">>, max_pogingen |-> 0]
    /\ wachtwoorden = <<>>
    /\ i = 0
    /\ pogingen = 0
    /\ wachtwoord = Geen
    /\ aanroepen = 0
    /\ slots = <<>>
    /\ log = LogBegin(Afwezig)

\* line 105: parse_arguments(); SystemExit is no Exception, so the handler at
\* line 148 does not catch it and the process ends with argparse's code
PoParse ==
    /\ pc = "po_main"
    /\ IF parse_arguments(args) # 0
       THEN /\ pc' = "exit"
            /\ log' = [log EXCEPT !.exit_code = parse_arguments(args)]
       ELSE /\ pc' = "po_send"
            /\ log' = log
    /\ UNCHANGED <<args, bronVars, woordenlijst, par, lusVars>>

\* lines 107-153: the request is built and sent, and sys.exit(main()) ends the
\* process
PoVerstuur ==
    /\ pc = "po_send"
    /\ pc' = "exit"
    /\ log' = [log EXCEPT !.exit_code = main(args, remote),
                          !.stdout = IF main(args, remote) = 0
                                     THEN @ \cup {"verstuurd"} ELSE @]
    /\ UNCHANGED <<args, bronVars, woordenlijst, par, lusVars>>

NextPush == PoParse \/ PoVerstuur

SpecPush == InitPush /\ [][NextPush]_vars

\* the command line has token, user and message and a priority in -2..2
PushArgsGeldig ==
    /\ args.token
    /\ args.user
    /\ args.message
    /\ args.priority \in -2..2

\* C19: main returns 4 whenever the API answers with an error response (a status
\* other than 200 with a JSON error body), and 3 only when the request could not
\* be sent or its response could not be processed.
C19_ApiErrorIsCode4 ==
    (pc = "exit" /\ PushArgsGeldig) =>
        /\ (remote.verzonden /\ remote.status_code # 200 /\ remote.body = "fouten")
              => log.exit_code = 4
        /\ log.exit_code = 3 => (~ remote.verzonden \/ remote.body = "geen_json")

\* C20: the process exits with code 1 when token, user or message is missing, and
\* with code 2 when a parameter value is invalid, such as a priority outside -2..2.
C20_MissingIs1InvalidIs2 ==
    pc = "exit" =>
        /\ (~ args.token \/ ~ args.user \/ ~ args.message) => log.exit_code = 1
        /\ (args.token /\ args.user /\ args.message /\ args.priority \notin -2..2)
              => log.exit_code = 2

----------------------------------------------------------------------------
(* Failures of the word source, under SpecDb *)

\* C29: download_woordenlijst returns to its caller on every path; when the cache
\* check, the fetch, the initialisation or the query has failed it returns the
\* empty list, and no database connection it opened is open when it returns.
C29_NoExceptionNoOpenConnection ==
    pc = "dw_return" =>
        /\ log.download \in {"RequestException", "init", "UnboundLocalError"}
              => woordenlijst = <<>>
        /\ ~ conn.open

----------------------------------------------------------------------------
(* The draws of one call, under SpecSynthese *)

\* the draws of the call that returned
Trek == slots[1]

\* the vocabulary words drawn, in the order drawn
Getrokken == [n \in 1..Len(Trek.steekproef) |-> par.woordenlijst[Trek.steekproef[n]]]

\* w with its first letter in upper case and every other character as it is
AlleenEersteHoofdletter(w) ==
    [n \in 1..Len(w) |->
        IF n = 1 THEN (IF w[n] = "a" THEN "A" ELSE IF w[n] = "b" THEN "B" ELSE w[n])
        ELSE w[n]]

\* C21: exactly one of the chosen words is capitalized, and the capitalization
\* changes only that word's first letter to upper case: every other character of
\* the word, and every other chosen word, is as in the vocabulary.
C21_CapitalizeChangesFirstLetterOnly ==
    pc = "gw_return" =>
        /\ Trek.woord_index \in 1..Len(Trek.gekozen_woorden)
        /\ \A n \in 1..Len(Trek.gekozen_woorden) :
              Trek.gekozen_woorden[n] =
                  IF n = Trek.woord_index
                  THEN AlleenEersteHoofdletter(Getrokken[n])
                  ELSE Getrokken[n]

\* C22: the number of words used lies between min_aantal_woorden and the smaller
\* of max_aantal_woorden and the size of the vocabulary, and a maximum above the
\* size of the vocabulary raises no error: the call returns a string.
C22_WordCountClamped ==
    /\ pc = "gw_return" =>
          /\ par.min_aantal_woorden <= Len(Trek.gekozen_woorden)
          /\ Len(Trek.gekozen_woorden)
                <= Min(par.max_aantal_woorden, Len(par.woordenlijst))
    /\ ( /\ pc # "gw"
         /\ par.min_aantal_woorden >= 1
         /\ Len(par.woordenlijst) >= par.min_aantal_woorden
         /\ par.max_aantal_woorden > Len(par.woordenlijst) )
          => pc = "gw_return"

\* a maximum of three on a vocabulary of two, and both words used
C22_Witness ==
    /\ pc = "gw_return"
    /\ par.max_aantal_woorden = 3
    /\ Len(par.woordenlijst) = 2
    /\ Len(Trek.gekozen_woorden) = 2

\* no word occurs twice in the vocabulary
VerschillendeWoorden ==
    \A n, m \in 1..Len(par.woordenlijst) :
        par.woordenlijst[n] = par.woordenlijst[m] => n = m

\* C23: from a vocabulary of distinct words the chosen words are pairwise distinct
\* entries of the vocabulary.
C23_NoWordTwice ==
    (pc = "gw_return" /\ VerschillendeWoorden) =>
        /\ Len(Trek.gekozen_woorden) = Len(Trek.steekproef)
        /\ \A n \in 1..Len(Trek.steekproef) :
              Trek.steekproef[n] \in 1..Len(par.woordenlijst)
        /\ \A n, m \in 1..Len(Trek.steekproef) :
              n # m => /\ Trek.steekproef[n] # Trek.steekproef[m]
                       /\ Getrokken[n] # Getrokken[m]

\* all three words of a vocabulary of three drawn, the last one first
C23_Witness ==
    /\ pc = "gw_return"
    /\ VerschillendeWoorden
    /\ Trek.steekproef = <<3, 1, 2>>

\* C24: the string returned is the candidate that the strategy built, followed by
\* exactly max(0, min_wachtwoord_lengte - len(candidate)) decimal digits.
C24_PaddingOnlyAppended ==
    pc = "gw_return" =>
        /\ Trek.kandidaat = plaats_tekens(Trek.gekozen_woorden, Trek.cijfer,
                                Trek.speciaal_teken, Trek.gekozen_positie, Trek.keuze)
        /\ SubSeq(wachtwoord.s, 1, Len(Trek.kandidaat)) = Trek.kandidaat
        /\ Len(wachtwoord.s) - Len(Trek.kandidaat)
              = Max(0, par.min_wachtwoord_lengte - Len(Trek.kandidaat))
        /\ \A n \in (Len(Trek.kandidaat) + 1)..Len(wachtwoord.s) :
              wachtwoord.s[n] \in Decimaal

\* a candidate of eight characters padded with two digits
C24_Witness ==
    /\ pc = "gw_return"
    /\ par.min_wachtwoord_lengte = 10
    /\ Len(Trek.kandidaat) = 8
    /\ Len(wachtwoord.s) = 10

\* the chosen words joined by hyphens
Basis == join("-", Trek.gekozen_woorden)

\* the number of characters of Basis in front of the n-th chosen word
Voor(n) ==
    IF n = 1 THEN 0 ELSE Len(join("-", SubSeq(Trek.gekozen_woorden, 1, n - 1))) + 1

\* the candidate is Basis with the digit and the special character inside the
\* chosen word, max(1, len div 2) characters after its beginning
InHetWoord ==
    /\ Trek.keuze \in 1..Len(Trek.gekozen_woorden)
    /\ LET plek == Voor(Trek.keuze)
                    + Max(1, Len(Trek.gekozen_woorden[Trek.keuze]) \div 2)
       IN  Trek.kandidaat = SubSeq(Basis, 1, plek)
                               \o <<Trek.cijfer, Trek.speciaal_teken>>
                               \o SubSeq(Basis, plek + 1, Len(Basis))

Koppeltekens(w) == Cardinality({n \in 1..Len(w) : w[n] = "-"})

\* C25 (as stated): under "midden" one chosen word is split at max(1, len div 2),
\* the digit and the special character are put between the halves, the words are
\* joined by hyphens in their order, and the candidate has k-1 hyphens.
C25_MidWordHyphenCount ==
    (pc = "gw_return" /\ Trek.gekozen_positie = "midden") =>
        /\ InHetWoord
        /\ Koppeltekens(Trek.kandidaat) = Len(Trek.gekozen_woorden) - 1

\* C25 (amended): as above, with k-1 hyphens between the words, and one hyphen
\* more when the special character drawn is a hyphen.
C25_MidWordShape ==
    (pc = "gw_return" /\ Trek.gekozen_positie = "midden") =>
        /\ InHetWoord
        /\ Trek.cijfer \in Decimaal
        /\ Trek.speciaal_teken \in Tekens(par.speciale_tekens)
        /\ Koppeltekens(Basis) = Len(Trek.gekozen_woorden) - 1
        /\ Koppeltekens(Trek.kandidaat)
              = Len(Trek.gekozen_woorden) - 1
                  + (IF Trek.speciaal_teken = "-" THEN 1 ELSE 0)

\* the second of two words, one letter long, split after its only letter
C25_Witness ==
    /\ pc = "gw_return"
    /\ Trek.gekozen_positie = "midden"
    /\ Len(Trek.gekozen_woorden) = 2
    /\ Trek.keuze = 2
    /\ Len(Trek.gekozen_woorden[2]) = 1
    /\ Trek.kandidaat = Basis \o <<Trek.cijfer, Trek.speciaal_teken>>

\* C26: under "tussen_woorden" with more than one word, one hyphen of the base
\* string is replaced by the digit followed by the special character and every
\* other character is unchanged; with one word the candidate is the base string
\* followed by the digit and the special character.
C26_InterWordReplacesOneHyphen ==
    (pc = "gw_return" /\ Trek.gekozen_positie = "tussen_woorden") =>
        IF Len(Trek.gekozen_woorden) > 1
        THEN \E m \in 1..Len(Basis) :
                /\ Basis[m] = "-"
                /\ Trek.kandidaat = SubSeq(Basis, 1, m - 1)
                                       \o <<Trek.cijfer, Trek.speciaal_teken>>
                                       \o SubSeq(Basis, m + 1, Len(Basis))
        ELSE Trek.kandidaat = Basis \o <<Trek.cijfer, Trek.speciaal_teken>>

\* three words, and the second hyphen replaced
C26_Witness ==
    /\ pc = "gw_return"
    /\ Trek.gekozen_positie = "tussen_woorden"
    /\ Len(Trek.gekozen_woorden) = 3
    /\ Basis[Trek.keuze] = "-"
    /\ Koppeltekens(SubSeq(Basis, 1, Trek.keuze)) = 2
    /\ Koppeltekens(Trek.kandidaat) = 1

----------------------------------------------------------------------------
(* SpecSyn: the SynStatus window, its connection to the Synology system *)

\* The window's state in the variables of this module:
\*   conn    self.synology_client
\*   par     self.config: the keys saved in config_data and the keyring password
\*   args    the text of hostname_input, username_input and password_input
\*   log     the text of connect_btn and of connection_btn, and whether
\*           details_widget (the input fields and connect_btn) is shown
\*   remote  the Synology system: whether it can be reached, the password it accepts

\* self.synology_client = None
GeenClient ==
    [none |-> TRUE, hostname |-> "", username |-> "", password |-> "",
     client |-> "None", connect |-> "nooit"]

\* SynologyClient.__init__: no SSH client yet, connect() not called yet
SynologyClient(hostname, username, password) ==
    [none |-> FALSE, hostname |-> hostname, username |-> username,
     password |-> password, client |-> "None", connect |-> "nooit"]

\* SynologyClient.connect: an SSHClient is created, and the result is True when the
\* system is reached and accepts the login, False after any exception
SynologyClient_connect(c, r) ==
    IF r.bereikbaar /\ c.hostname = "nas" /\ c.username = "admin"
          /\ c.password = r.wachtwoord
    THEN [c EXCEPT !.client = "verbonden", !.connect = "True"]
    ELSE [c EXCEPT !.client = "niet_verbonden", !.connect = "False"]

\* SynologyClient.is_connected: exec_command on the SSH client succeeds
is_connected(c, r) == c.client = "verbonden" /\ r.bereikbaar

\* SynologyClient.disconnect
disconnect(c) == IF c.client # "None" THEN [c EXCEPT !.client = "None"] ELSE c

\* `if self.synology_client`
is_client(c) == ~ c.none

\* SynologyConfig.has_saved_credentials
has_saved_credentials(config) == config.opgeslagen

\* SynologyConfig.get_credentials: "" stands for None
get_credentials(config) ==
    IF ~ has_saved_credentials(config) THEN <<"", "", "">>
    ELSE <<config.hostname, config.username, config.keyring>>

\* all([hostname, username, password])
all_ingevuld(t) == t[1] # "" /\ t[2] # "" /\ t[3] # ""

\* SynologyConfig.save_credentials: the keys are set, the keyring only when the
\* file could be written
save_credentials(config, hostname, username, password, success) ==
    [opgeslagen |-> TRUE, hostname |-> hostname, username |-> username,
     keyring |-> IF success THEN password ELSE config.keyring]

\* update_status: the text of connection_btn
update_status(c, r) ==
    IF ~ is_client(c) \/ ~ is_connected(c, r) THEN "connection_broken" ELSE "open_ssh"

\* update_connection_ui: the saved host and user are put in the input fields
update_connection_ui(config, invoer) ==
    IF has_saved_credentials(config)
    THEN [invoer EXCEPT !.hostname = config.hostname, !.username = config.username]
    ELSE invoer

\* update_connection_ui: details_widget is hidden when credentials are saved
details_getoond(config) == ~ has_saved_credentials(config)

\* connect_with_saved_credentials: the client that is left in self.synology_client
connect_with_saved_credentials(config, r) ==
    LET t == get_credentials(config)
    IN  IF all_ingevuld(t)
        THEN SynologyClient_connect(SynologyClient(t[1], t[2], t[3]), r)
        ELSE GeenClient

Wachtwoorden == {"", "geheim", "oud"}

Configs ==
    {[opgeslagen |-> FALSE, hostname |-> "", username |-> "", keyring |-> ""]}
        \cup {[opgeslagen |-> TRUE, hostname |-> "nas", username |-> "admin",
               keyring |-> k] : k \in Wachtwoorden}

Invoeren ==
    [hostname : {"", "nas"}, username : {"", "admin"}, password : Wachtwoorden]

InitSyn ==
    /\ pc = "syn_start"
    /\ par \in Configs
    /\ remote \in [bereikbaar : BOOLEAN, wachtwoord : {"geheim"}]
    /\ args = [hostname |-> "", username |-> "", password |-> ""]
    /\ conn = GeenClient
    /\ log = [connect_btn |-> "connect_btn", connection_btn |-> "disconnect_btn",
              details |-> TRUE]
    /\ db = Afwezig
    /\ woordenlijst = <<>>
    /\ wachtwoorden = <<>>
    /\ i = 0
    /\ pogingen = 0
    /\ wachtwoord = Geen
    /\ aanroepen = 0
    /\ slots = <<>>

\* SynologyMaintenanceApp.__init__: the window is built and, with saved
\* credentials, the connection is made at once
SynStart ==
    /\ pc = "syn_start"
    /\ pc' = "syn_idle"
    /\ args' = update_connection_ui(par, args)
    /\ IF has_saved_credentials(par)
       THEN LET c == connect_with_saved_credentials(par, remote)
            IN  /\ conn' = c
                /\ log' = IF c.connect = "True"
                          THEN [connect_btn |-> "disconnect_btn",
                                connection_btn |-> update_status(c, remote),
                                details |-> details_getoond(par)]
                          ELSE [log EXCEPT !.details = details_getoond(par)]
       ELSE /\ log' = [log EXCEPT !.details = details_getoond(par)]
            /\ UNCHANGED conn
    /\ UNCHANGED <<db, remote, woordenlijst, par, lusVars>>

\* handle_connection: the connect/disconnect button, which is part of
\* details_widget, is pressed
HandleConnection ==
    /\ pc = "syn_idle"
    /\ log.details
    /\ IF is_client(conn) /\ log.connect_btn = "disconnect_btn"
       THEN /\ conn' = GeenClient
            /\ log' = [log EXCEPT !.connect_btn = "connect_btn",
                                  !.connection_btn = update_status(GeenClient, remote)]
            /\ UNCHANGED <<args, par>>
       ELSE IF ~ all_ingevuld(<<args.hostname, args.username, args.password>>)
       THEN UNCHANGED <<conn, log, args, par>>
       ELSE LET c == SynologyClient_connect(
                        SynologyClient(args.hostname, args.username, args.password),
                        remote)
            IN  IF c.connect = "True"
                THEN /\ conn' = c
                     /\ \E success \in BOOLEAN :
                           par' = save_credentials(par, args.hostname, args.username,
                                                   args.password, success)
                     /\ log' = [connect_btn |-> "disconnect_btn",
                                connection_btn |-> update_status(c, remote),
                                details |-> details_getoond(par')]
                     /\ args' = update_connection_ui(par', args)
                ELSE /\ conn' = GeenClient
                     /\ UNCHANGED <<log, args, par>>
    /\ UNCHANGED <<pc, db, remote, woordenlijst, lusVars>>

\* the status timer fires
UpdateStatus ==
    /\ pc = "syn_idle"
    /\ log' = [log EXCEPT !.connection_btn = update_status(conn, remote)]
    /\ UNCHANGED <<pc, args, bronVars, woordenlijst, par, lusVars>>

\* the user edits the input fields
Invoer ==
    /\ pc = "syn_idle"
    /\ log.details
    /\ args' \in Invoeren
    /\ args' # args
    /\ UNCHANGED <<pc, bronVars, woordenlijst, par, lusVars, log>>

\* show_connection_details: edit_conn_btn, shown in place of details_widget, is
\* pressed: the password field is cleared and details_widget is shown
ShowConnectionDetails ==
    /\ pc = "syn_idle"
    /\ ~ log.details
    /\ args' = [args EXCEPT !.password = ""]
    /\ log' = [log EXCEPT !.details = TRUE]
    /\ UNCHANGED <<pc, bronVars, woordenlijst, par, lusVars>>

\* the Synology system goes down or comes back
NetwerkWijzigt ==
    /\ pc = "syn_idle"
    /\ remote' = [remote EXCEPT !.bereikbaar = ~ @]
    /\ UNCHANGED <<pc, args, db, conn, woordenlijst, par, lusVars, log>>

NextSyn ==
    \/ SynStart
    \/ HandleConnection
    \/ UpdateStatus
    \/ Invoer
    \/ ShowConnectionDetails
    \/ NetwerkWijzigt

SpecSyn == InitSyn /\ [][NextSyn]_vars

\* C30: in every state of the window synology_client is None or a SynologyClient
\* whose most recent connect() returned True; a failed connection attempt leaves
\* no client behind.
C30_ClientIsNoneOrConnected ==
    pc = "syn_idle" => (~ is_client(conn) \/ conn.connect = "True")

====
